---------------------------- MODULE Spec2Model ----------------------------
(***************************************************************************)
(* Kaleidoscope front end (src/parser.cpp): lexer, precedence-climbing     *)
(* parser, driver loop and the lowering pass.                              *)
(*                                                                         *)
(* Characters are their ASCII codes and a token is an int, as in the       *)
(* source: a negative TOK_* value or the code of a punctuation character.  *)
(* char is taken to be signed (clang on x86), so that the char last_char   *)
(* can hold EOF.  Strings are sequences of character codes.                *)
(***************************************************************************)
EXTENDS Integers, Sequences, FiniteSets, TLC

VARIABLES
    input,              \* the content of stdin, a sequence of character codes
    rpos,               \* number of characters getchar() has handed out
    last_char,          \* get_token's static one-character push-back slot
    identifier_string,  \* payload of the last identifier token
    number_val,         \* payload of the last number token
    out,                \* the tokens get_token has returned so far
    curr_token,         \* the parser's current token
    stderr,             \* the lines written to stderr
    ndebug,             \* TRUE when the build defines NDEBUG (assert is a no-op)
    pc,                 \* where main is: "start", "loop", "done", "aborted"
    units,              \* what the handlers called so far have parsed
    variant,            \* which parse_prototype runs step by step: 1 is the one
                        \* of lines 290-311, 2 the one of lines 845-867
    frame,              \* the locals of that parse_prototype and where it is
    module,             \* the functions of the llvm::Module, in creation order
    builder,            \* the block the IRBuilder is positioned at
    named_values,       \* the scope table: name -> Value*
    last                \* the last unit lowered and what its lowering did

lexvars == <<rpos, last_char, identifier_string, number_val>>
parsevars == <<curr_token, stderr, ndebug, pc, units>>
protovars == <<variant, frame>>
lowervars == <<module, builder, named_values, last>>
vars == <<input, lexvars, out, parsevars, protovars, lowervars>>

----------------------------------------------------------------------------
(* Token codes and character codes *)

EOF == -1
TOK_EOF == -1
TOK_DEF == -2
TOK_EXTERN == -3
TOK_IDENTIFIER == -4
TOK_NUMBER == -5

CH_TAB == 9
CH_NL == 10
CH_VT == 11
CH_FF == 12
CH_CR == 13
CH_SPACE == 32
CH_HASH == 35
CH_LPAREN == 40
CH_RPAREN == 41
CH_STAR == 42
CH_PLUS == 43
CH_COMMA == 44
CH_MINUS == 45
CH_DOT == 46
CH_SEMI == 59
CH_LT == 60

STR_def == <<100, 101, 102>>
STR_extern == <<101, 120, 116, 101, 114, 110>>

isspace(c) == c \in {CH_SPACE, CH_TAB, CH_NL, CH_VT, CH_FF, CH_CR}
isalpha(c) == c \in (65..90) \cup (97..122)
isdigit(c) == c \in 48..57
\* a faulty isalnum: digits do not continue an identifier
isalnum_letters(c) == isalpha(c)

isalnum(c) == isalpha(c) \/ isdigit(c)

----------------------------------------------------------------------------
(* The AST.  nullptr is the absent result of a failed parse or lowering.   *)

nullptr == [k |-> "nullptr"]
IsNull(n) == n.k = "nullptr"

NumLiteralExpr(val) == [k |-> "NumLiteralExpr", value |-> val]
VarExpr(name) == [k |-> "VarExpr", name |-> name]
BinaryExpr(kld_op, lhs, rhs) ==
    [k |-> "BinaryExpr", kld_op |-> kld_op, lhs |-> lhs, rhs |-> rhs]
CallExpr(callee_name, args) ==
    [k |-> "CallExpr", callee_name |-> callee_name, args |-> args]
AstPrototype(name, arg_names) ==
    [k |-> "AstPrototype", name |-> name, arg_names |-> arg_names]
AstFuncDef(prototype, body) ==
    [k |-> "AstFuncDef", prototype |-> prototype, body |-> body]

----------------------------------------------------------------------------
(* strtod on a digit-initial run of digits and dots: the longest prefix    *)
(* digits [ '.' digits ] is converted, the rest is ignored.  The value is  *)
(* kept exactly, as its whole part and its fraction digits without         *)
(* trailing zeros, so that "1", "1." and "1.0" are the same number.        *)

RECURSIVE DigitRun(_, _)
DigitRun(s, i) ==
    IF i <= Len(s) /\ isdigit(s[i]) THEN <<s[i] - 48>> \o DigitRun(s, i + 1) ELSE <<>>

RECURSIVE DigitsToNat(_)
DigitsToNat(ds) ==
    IF ds = <<>> THEN 0
    ELSE 10 * DigitsToNat(SubSeq(ds, 1, Len(ds) - 1)) + ds[Len(ds)]

RECURSIVE StripZeros(_)
StripZeros(ds) ==
    IF ds # <<>> /\ ds[Len(ds)] = 0 THEN StripZeros(SubSeq(ds, 1, Len(ds) - 1)) ELSE ds

Double(w, f) == [whole |-> w, frac |-> f]

strtod(s) ==
    LET ip == DigitRun(s, 1)
        fr == IF Len(ip) < Len(s) /\ s[Len(ip) + 1] = CH_DOT
              THEN DigitRun(s, Len(ip) + 2) ELSE <<>>
    IN  Double(DigitsToNat(ip), StripZeros(fr))

----------------------------------------------------------------------------
(* The lexer.  g is the record of the globals; get_token reads and writes  *)
(* its fields rpos, last_char, identifier_string and number_val.           *)

\* last_char = getchar();
read_char(g) ==
    IF g.rpos < Len(input)
    THEN [g EXCEPT !.last_char = input[g.rpos + 1], !.rpos = g.rpos + 1]
    ELSE [g EXCEPT !.last_char = EOF]

\* while (isspace(last_char)) last_char = getchar();
RECURSIVE skip_space(_)
skip_space(g) == IF isspace(g.last_char) THEN skip_space(read_char(g)) ELSE g

\* while (isalnum(last_char)) { identifier_string += last_char; last_char = getchar(); }
RECURSIVE read_ident(_)
read_ident(g) ==
    IF isalnum(g.last_char)
    THEN read_ident(read_char(
             [g EXCEPT !.identifier_string = Append(g.identifier_string, g.last_char)]))
    ELSE g

\* while (isdigit(last_char) || last_char == '.') { num_string += last_char; ... }
RECURSIVE read_number(_, _)
read_number(g, num_string) ==
    IF isdigit(g.last_char) \/ g.last_char = CH_DOT
    THEN read_number(read_char(g), Append(num_string, g.last_char))
    ELSE [g |-> g, num_string |-> num_string]

\* while (last_char != EOF && last_char != '\n' && last_char != '\r') last_char = getchar();
RECURSIVE skip_comment(_)
skip_comment(g) ==
    IF g.last_char # EOF /\ g.last_char # CH_NL /\ g.last_char # CH_CR
    THEN skip_comment(read_char(g)) ELSE g

string_to_keyword(s) ==
    IF s = STR_def THEN TOK_DEF
    ELSE IF s = STR_extern THEN TOK_EXTERN
    ELSE TOK_IDENTIFIER

\* the final branch: return the character itself and read the next one
punct_token(g) ==
    [g |-> read_char(g), tok |-> g.last_char, text |-> <<g.last_char>>]

RECURSIVE get_token(_)
get_token(g0) ==
    LET g == skip_space(g0) IN
    IF isalpha(g.last_char) THEN
        LET g1 == read_ident(read_char([g EXCEPT !.identifier_string = <<g.last_char>>]))
        IN  [g |-> g1, tok |-> string_to_keyword(g1.identifier_string),
             text |-> g1.identifier_string]
    ELSE IF isdigit(g.last_char) THEN
        LET r == read_number(read_char(g), <<g.last_char>>)
        IN  [g |-> [r.g EXCEPT !.number_val = strtod(r.num_string)],
             tok |-> TOK_NUMBER, text |-> r.num_string]
    ELSE
        LET gc == IF g.last_char = CH_HASH THEN skip_comment(read_char(g)) ELSE g IN
        IF g.last_char = CH_HASH /\ gc.last_char # EOF THEN get_token(read_char(gc))
        ELSE IF gc.last_char = EOF THEN [g |-> gc, tok |-> TOK_EOF, text |-> <<>>]
        ELSE punct_token(gc)

\* the globals as one record, and the lexer's part of them after a call;
\* aborted is set when an assert fails, and recursions counts the recursive
\* calls parse_bin_op_rhs makes of itself during one handler
Globals ==
    [rpos |-> rpos, last_char |-> last_char,
     identifier_string |-> identifier_string, number_val |-> number_val,
     curr_token |-> curr_token, stderr |-> stderr,
     ndebug |-> ndebug, aborted |-> FALSE, recursions |-> 0, unmet |-> 0,
     built |-> {}, min_precs |-> {}]

SetLexer(g) ==
    /\ rpos' = g.rpos
    /\ last_char' = g.last_char
    /\ identifier_string' = g.identifier_string
    /\ number_val' = g.number_val

InitLexer ==
    /\ rpos = 0
    /\ last_char = CH_SPACE
    /\ identifier_string = <<>>
    /\ number_val = Double(69, <<>>)

----------------------------------------------------------------------------
(* Inputs of the lexer: up to MaxLexChunks pieces of text, concatenated.   *)

MaxLexChunks == 4

LexChunks ==
    { STR_def, STR_extern, <<120>>, <<49>>, <<CH_DOT>>, <<CH_SPACE>>,
      <<CH_PLUS>>, <<CH_HASH>>, <<CH_NL>>, <<CH_LPAREN>> }

RECURSIVE Concats(_, _)
Concats(chunks, n) ==
    IF n = 0 THEN { <<>> }
    ELSE LET shorter == Concats(chunks, n - 1)
         IN  shorter \cup { s \o c : s \in shorter, c \in chunks }

LexInputs == Concats(LexChunks, MaxLexChunks)

\* an empty module, a builder positioned nowhere, an empty scope table
InitLowering ==
    /\ module = [functions |-> <<>>, last_unique |-> 0, created |-> 0]
    /\ builder = nullptr
    /\ named_values = [n \in {} |-> nullptr]
    /\ last = [n |-> 0, kind |-> "none", ast |-> nullptr, ret |-> nullptr,
               before |-> nullptr, trace |-> <<>>, calls |-> <<>>,
               body_retval |-> "unset", body_scope |-> <<>>, verified |-> "unset",
               lookups |-> <<>>, erased |-> <<>>, crashed |-> FALSE]

NoFrame == [at |-> "none", func_name |-> <<>>, args |-> <<>>, result |-> nullptr]

InitParser ==
    /\ curr_token = -69
    /\ stderr = <<>>
    /\ pc = "start"
    /\ units = <<>>
    /\ variant = 2
    /\ frame = NoFrame
    /\ InitLowering

InitLex ==
    /\ input \in LexInputs
    /\ InitLexer
    /\ out = <<>>
    /\ InitParser
    /\ ndebug = FALSE

\* one call of get_token
LexGetToken ==
    /\ IF Len(out) = 0 THEN TRUE ELSE out[Len(out)].tok # TOK_EOF
    /\ LET r == get_token(Globals) IN
        /\ SetLexer(r.g)
        /\ out' = Append(out, [tok |-> r.tok, text |-> r.text])
    /\ UNCHANGED <<input, parsevars, protovars, lowervars>>

\* a call of get_token after it has returned end-of-input
LexAfterEof ==
    /\ Len(out) > 0
    /\ out[Len(out)].tok = TOK_EOF
    /\ IF Len(out) < 2 THEN TRUE ELSE out[Len(out) - 1].tok # TOK_EOF
    /\ LET r == get_token(Globals) IN
        /\ SetLexer(r.g)
        /\ out' = Append(out, [tok |-> r.tok, text |-> r.text])
    /\ UNCHANGED <<input, parsevars, protovars, lowervars>>

NextLex == LexGetToken \/ LexAfterEof

SpecLex == InitLex /\ [][NextLex]_vars

----------------------------------------------------------------------------
(* C5: the token sequence of an input, defined on positions of the input   *)
(* instead of the push-back slot.  RunEnd(i, P) is the last position of    *)
(* the longest run of characters satisfying P that starts at i.            *)

RunEnd(i, P(_)) ==
    CHOOSE j \in i..Len(input) :
        /\ \A k \in i..j : P(input[k])
        /\ j = Len(input) \/ ~P(input[j + 1])

IsIdentChar(c) == c \in (48..57) \cup (65..90) \cup (97..122)
IsNumChar(c) == c \in 48..57 \/ c = CH_DOT
IsCommentChar(c) == c # CH_NL /\ c # CH_CR

RefToken(tok, i, j) == [tok |-> tok, text |-> SubSeq(input, i, j), end |-> j]

\* comments = TRUE: '#' starts a comment that runs through the next newline
\* or carriage return; comments = FALSE: '#' is a character like any other.
RECURSIVE RefLex(_, _)
RefLex(i, comments) ==
    IF i > Len(input) THEN << RefToken(TOK_EOF, i, Len(input)) >>
    ELSE IF isspace(input[i]) THEN RefLex(i + 1, comments)
    ELSE IF isalpha(input[i]) THEN
        LET j == RunEnd(i, IsIdentChar)
            t == SubSeq(input, i, j)
            k == IF t = STR_def THEN TOK_DEF
                 ELSE IF t = STR_extern THEN TOK_EXTERN ELSE TOK_IDENTIFIER
        IN  << RefToken(k, i, j) >> \o RefLex(j + 1, comments)
    ELSE IF isdigit(input[i]) THEN
        LET j == RunEnd(i, IsNumChar)
        IN  << RefToken(TOK_NUMBER, i, j) >> \o RefLex(j + 1, comments)
    ELSE IF comments /\ input[i] = CH_HASH THEN
        IF i = Len(input) THEN << RefToken(TOK_EOF, i + 1, Len(input)) >>
        ELSE IF ~IsCommentChar(input[i + 1]) THEN RefLex(i + 2, comments)
        ELSE RefLex(RunEnd(i + 1, IsCommentChar) + 2, comments)
    ELSE << RefToken(input[i], i, i) >> \o RefLex(i + 1, comments)

\* out is the start of the reference sequence, end-of-input repeating, and
\* the push-back slot holds the character after the last token returned
AgreesWith(ref) ==
    /\ \A k \in 1..Len(out) :
          LET r == ref[IF k < Len(ref) THEN k ELSE Len(ref)]
          IN  out[k].tok = r.tok /\ out[k].text = r.text
    /\ Len(out) > 0 =>
          LET r == ref[IF Len(out) < Len(ref) THEN Len(out) ELSE Len(ref)]
          IN  /\ rpos = (IF r.end < Len(input) THEN r.end + 1 ELSE Len(input))
              /\ last_char = (IF r.end < Len(input) THEN input[r.end + 1] ELSE EOF)

\* C5 as stated: the tokens returned are the maximal-munch tokens of the
\* input where every character that is not white space, a letter or a digit
\* is a punctuation token, and no character is dropped.
C5_AsStated == AgreesWith(RefLex(1, FALSE))

\* C5 amended: successive get_token calls return the maximal-munch tokens of
\* the input in order, where white space is skipped and a '#' starts a
\* comment that is skipped through the next newline or carriage return (or
\* to the end of input); the push-back slot holds the character that
\* follows the last token, so no other character is dropped or read twice.
C5_MaximalMunch == AgreesWith(RefLex(1, TRUE))

\* an identifier that only starts like a keyword, a number with a dot, a
\* comment and a token read right after the comment, then end-of-input
C5_Witness ==
    /\ Len(out) >= 3
    /\ out[Len(out)].tok = TOK_EOF
    /\ \E k \in 1..Len(out) : out[k].tok = TOK_IDENTIFIER /\ Len(out[k].text) > 3
    /\ \E k \in 1..Len(input) : input[k] = CH_HASH
    /\ \E k \in 1..Len(out) : out[k].tok \in {TOK_DEF, TOK_EXTERN, TOK_NUMBER}

----------------------------------------------------------------------------
(* The parser.  Every parse function takes the globals g and returns the   *)
(* globals after it together with the node it built.                       *)

get_next_token(g) ==
    LET r == get_token(g) IN [r.g EXCEPT !.curr_token = r.tok]

\* fprintf(stderr, "Error: %s\n", msg); the token id that parse_primary
\* appends to its message is left out of the line
log_error(g, msg) == [g EXCEPT !.stderr = Append(@, [error |-> TRUE, msg |-> msg])]

\* fprintf(stderr, "Found a ...!\n");
report_found(g, msg) == [g EXCEPT !.stderr = Append(@, [error |-> FALSE, msg |-> msg])]

Failed(g) == [g |-> g, node |-> nullptr]

\* assert(cond): aborts the process unless the build defines NDEBUG
assert_aborts(g, cond) == ~cond /\ ~g.ndebug
Abort(g) == Failed([g EXCEPT !.aborted = TRUE, !.unmet = @ + 1])

\* past an assert: unmet counts the asserts passed with a false condition,
\* which only a build with NDEBUG gets past
asserted(g, cond) == IF cond THEN g ELSE [g EXCEPT !.unmet = @ + 1]

\* the conversion of an int to the (signed) char a function takes
to_char(t) == ((t + 128) % 256) - 128

\* a faulty get_binary_precedence: '*' given the precedence of '+' and '-'
get_binary_precedence_flat(op) ==
    IF op = CH_LT THEN 10
    ELSE IF op = CH_PLUS \/ op = CH_MINUS \/ op = CH_STAR THEN 20
    ELSE -1

get_binary_precedence(op) ==
    IF op = CH_LT THEN 10
    ELSE IF op = CH_PLUS \/ op = CH_MINUS THEN 20
    ELSE IF op = CH_STAR THEN 40
    ELSE -1

\* if (curr_prec < lhs_prec) return lhs;
binds_before(curr_prec, lhs_prec) == curr_prec < lhs_prec

\* a faulty test: the recursive call also taken at equal precedence
rhs_binds_tighter_or_equal(curr_prec, next_prec) == curr_prec <= next_prec

\* if (curr_prec < next_prec) rhs = parse_bin_op_rhs(curr_prec + 1, move(rhs));
rhs_binds_tighter(curr_prec, next_prec) == curr_prec < next_prec

\* The body of a function after a call is an operator of its own that takes
\* the call's result, so that every call is written once.

WithNode(g, node) == [g |-> g, node |-> node]

parse_number(g) ==
    IF assert_aborts(g, g.curr_token = TOK_NUMBER) THEN Abort(g)
    ELSE WithNode(get_next_token(asserted(g, g.curr_token = TOK_NUMBER)),
                  NumLiteralExpr(g.number_val))

RECURSIVE parse_expr(_), parse_primary(_), parse_paren_expr(_)
RECURSIVE parse_identifier(_), parse_call_args(_, _), parse_bin_op_rhs(_, _, _)

\* a faulty close: the token after the inner expression is skipped unchecked
paren_expr_close_unchecked(expr) ==
    IF IsNull(expr.node) THEN Failed(expr.g)
    ELSE [g |-> get_next_token(expr.g), node |-> expr.node]

\* parse_paren_expr after  auto expr = parse_expr();
paren_expr_close(expr) ==
    IF IsNull(expr.node) THEN Failed(expr.g)
    ELSE IF expr.g.curr_token # CH_RPAREN
         THEN Failed(log_error(expr.g, "Expected ')'"))
    ELSE WithNode(get_next_token(expr.g), expr.node)

parse_paren_expr(g) ==
    IF assert_aborts(g, g.curr_token = CH_LPAREN) THEN Abort(g)
    ELSE paren_expr_close(parse_expr(get_next_token(asserted(g, g.curr_token = CH_LPAREN))))

\* one turn of the while (true) loop over the arguments of a call, after
\* auto arg = parse_expr();  the node returned is the call, built once the
\* loop is left by break
call_args_next(id_name, args, arg) ==
    IF IsNull(arg.node) THEN Failed(arg.g)
    ELSE IF arg.g.curr_token = CH_RPAREN
         THEN WithNode(get_next_token(arg.g), CallExpr(id_name, Append(args, arg.node)))
    ELSE IF arg.g.curr_token # CH_COMMA
         THEN Failed(log_error(arg.g, "Expected ',' or ')'"))
    ELSE parse_call_args(id_name, WithNode(arg.g, Append(args, arg.node)))

\* a is the globals with the vector args as its node
parse_call_args(id_name, a) == call_args_next(id_name, a.node, parse_expr(a.g))

\* parse_identifier after  get_next_token(); // discard '('
identifier_call(id_name, g) ==
    IF g.curr_token # CH_RPAREN THEN parse_call_args(id_name, WithNode(g, <<>>))
    ELSE WithNode(get_next_token(g), CallExpr(id_name, <<>>))

\* parse_identifier after the first get_next_token();
identifier_rest(id_name, g) ==
    IF g.curr_token # CH_LPAREN THEN WithNode(g, VarExpr(id_name))
    ELSE identifier_call(id_name, get_next_token(g))

parse_identifier(g) ==
    IF assert_aborts(g, g.curr_token = TOK_IDENTIFIER) THEN Abort(g)
    ELSE identifier_rest(g.identifier_string,
                         get_next_token(asserted(g, g.curr_token = TOK_IDENTIFIER)))

parse_primary(g) ==
    IF g.curr_token = TOK_IDENTIFIER THEN parse_identifier(g)
    ELSE IF g.curr_token = TOK_NUMBER THEN parse_number(g)
    ELSE IF g.curr_token = CH_LPAREN THEN parse_paren_expr(g)
    ELSE Failed(log_error(g, "Unexpected token with id"))

\* the precedence of the current token
token_precedence(g) == get_binary_precedence(to_char(g.curr_token))

\* lhs = make_unique<BinaryExpr>(op, move(lhs), move(rhs)); and the next turn
bin_op_combine(lhs_prec, lhs, op, rhs) ==
    IF IsNull(rhs.node) THEN Failed(rhs.g)
    ELSE parse_bin_op_rhs(lhs_prec, BinaryExpr(op, lhs, rhs.node),
                          [rhs.g EXCEPT !.built = @ \cup {op}])

\* one turn of the loop after  auto rhs = parse_primary();
bin_op_lookahead(lhs_prec, lhs, op, curr_prec, rhs) ==
    IF IsNull(rhs.node) THEN Failed(rhs.g)
    ELSE bin_op_combine(lhs_prec, lhs, op,
             IF rhs_binds_tighter(curr_prec, token_precedence(rhs.g))
             THEN parse_bin_op_rhs(curr_prec + 1, rhs.node,
                                   [rhs.g EXCEPT !.recursions = @ + 1,
                                                 !.min_precs = @ \cup {curr_prec + 1}])
             ELSE rhs)

parse_bin_op_rhs(lhs_prec, lhs, g) ==
    IF binds_before(token_precedence(g), lhs_prec) THEN WithNode(g, lhs)
    ELSE bin_op_lookahead(lhs_prec, lhs, to_char(g.curr_token), token_precedence(g),
                          parse_primary(get_next_token(g)))

\* a faulty parse_expr: the loop entered with a minimum precedence of -1
expr_rest_below(lhs) ==
    IF IsNull(lhs.node) THEN Failed(lhs.g)
    ELSE parse_bin_op_rhs(-1, lhs.node, [lhs.g EXCEPT !.min_precs = @ \cup {-1}])

\* parse_expr after  auto lhs = parse_primary();
expr_rest(lhs) ==
    IF IsNull(lhs.node) THEN Failed(lhs.g)
    ELSE parse_bin_op_rhs(0, lhs.node, [lhs.g EXCEPT !.min_precs = @ \cup {0}])

parse_expr(g) == expr_rest(parse_primary(g))

\* while (curr_token == TOK_IDENTIFIER) { args.push_back(identifier_string); get_next_token(); }
\* a is the globals with the vector args as its node
RECURSIVE parse_prototype_args(_)
parse_prototype_args(a) ==
    IF a.g.curr_token = TOK_IDENTIFIER
    THEN parse_prototype_args(
             WithNode(get_next_token(a.g), Append(a.node, a.g.identifier_string)))
    ELSE a

\* parse_prototype after the loop
prototype_close(func_name, a) ==
    IF a.g.curr_token # CH_RPAREN THEN Failed(log_error(a.g, "Expected '('"))
    ELSE WithNode(get_next_token(a.g), AstPrototype(func_name, a.node))

\* parse_prototype after the first get_next_token();
prototype_rest(func_name, g) ==
    IF g.curr_token # CH_LPAREN THEN Failed(log_error(g, "Expected '('"))
    ELSE prototype_close(func_name,
                         parse_prototype_args(WithNode(get_next_token(g), <<>>)))

parse_prototype(g) ==
    IF assert_aborts(g, g.curr_token = TOK_IDENTIFIER) THEN Abort(g)
    ELSE prototype_rest(g.identifier_string,
                        get_next_token(asserted(g, g.curr_token = TOK_IDENTIFIER)))

\* parse_definition after  auto body = parse_expr();
definition_body(proto, body) ==
    IF IsNull(body.node) THEN Failed(body.g)
    ELSE WithNode(body.g, AstFuncDef(proto, body.node))

\* parse_definition after  auto proto = parse_prototype();
definition_rest(proto) ==
    IF IsNull(proto.node) THEN Failed(proto.g)
    ELSE definition_body(proto.node, parse_expr(proto.g))

parse_definition(g) ==
    IF assert_aborts(g, g.curr_token = TOK_DEF) THEN Abort(g)
    ELSE definition_rest(parse_prototype(get_next_token(asserted(g, g.curr_token = TOK_DEF))))

parse_extern(g) ==
    IF assert_aborts(g, g.curr_token = TOK_EXTERN) THEN Abort(g)
    ELSE parse_prototype(get_next_token(asserted(g, g.curr_token = TOK_EXTERN)))

\* parse_top_level_expr after  auto expr = parse_expr();
top_level_wrap(expr) ==
    IF IsNull(expr.node) THEN Failed(expr.g)
    ELSE WithNode(expr.g, AstFuncDef(AstPrototype(<<>>, <<>>), expr.node))

parse_top_level_expr(g) == top_level_wrap(parse_expr(g))

----------------------------------------------------------------------------
(* Inputs of the parser: sequences of lexemes, written out with a space    *)
(* between two lexemes that would otherwise run together.                  *)

MaxOps == 4        \* operators in a chain  p0 op1 p1 ... opn pn
MaxArgs == 3       \* arguments of a call
MaxParenOps == 2   \* operators inside a parenthesized expression
MaxParams == 2     \* parameter names of a prototype
MaxWords == 3      \* lexemes of an arbitrary input

W_a == <<97>>
W_b == <<98>>
W_f == <<102>>
W_h == <<104>>
W_z == <<122>>
W_foo == <<102, 111, 111>>
W_1 == <<49>>
W_2 == <<50>>
W_7 == <<55>>
W(c) == <<c>>

RECURSIVE Join(_)
Join(ws) ==
    IF ws = <<>> THEN <<>>
    ELSE IF Len(ws) = 1 THEN ws[1]
    ELSE LET w == ws[1]
             rest == Join(Tail(ws))
         IN  IF isalnum(w[Len(w)]) /\ (isalnum(rest[1]) \/ rest[1] = CH_DOT)
             THEN w \o <<CH_SPACE>> \o rest
             ELSE w \o rest

Operators == {CH_LT, CH_PLUS, CH_MINUS, CH_STAR}

\* the i-th primary of a chain: the identifiers a, c, e, ... at even
\* positions and the numbers 1, 3, 5, ... at odd ones
Primary(i) == IF i % 2 = 0 THEN <<97 + i>> ELSE <<48 + i>>

RECURSIVE Chains(_)
Chains(n) ==
    IF n = 0 THEN { << Primary(0) >> }
    ELSE { c \o << W(op), Primary(n) >> : c \in Chains(n - 1), op \in Operators }

ChainsUpTo(n) == UNION { Chains(i) : i \in 0..n }

ArgExprs == { <<W_a>>, <<W_1>>, <<W_b, W(CH_STAR), W_2>>,
              <<W_h, W(CH_LPAREN), W_1, W(CH_RPAREN)>> }

RECURSIVE ArgLists(_, _)
ArgLists(k, sep) ==
    IF k = 0 THEN { <<>> }
    ELSE IF k = 1 THEN ArgExprs
    ELSE { l \o sep \o a : l \in ArgLists(k - 1, sep), a \in ArgExprs }

CallWords ==
    { << W_f, W(CH_LPAREN) >> \o l \o closer \o tail :
        l \in UNION { ArgLists(k, sep) : k \in 0..MaxArgs,
                      sep \in { <<W(CH_COMMA)>>, <<>>, <<W(CH_SEMI)>> } },
        closer \in { <<W(CH_RPAREN)>>, <<>> },
        tail \in { <<>>, <<W(CH_SEMI)>>, <<W(CH_PLUS), W_1>>, <<W_z>> } }

ParenExprs ==
    ChainsUpTo(MaxParenOps)
      \cup { << W(CH_LPAREN) >> \o c \o << W(CH_RPAREN) >> : c \in ChainsUpTo(1) }

ParenWords ==
    { << W(CH_LPAREN) >> \o e \o closer \o tail :
        e \in ParenExprs,
        closer \in { <<W(CH_RPAREN)>>, <<>>, <<W(CH_COMMA)>>, <<W_7>> },
        tail \in { <<>> } \cup { << W(op), W_z >> : op \in Operators } }

RECURSIVE ParamLists(_)
ParamLists(k) ==
    IF k = 0 THEN { <<>> }
    ELSE LET shorter == ParamLists(k - 1)
         IN  shorter \cup { l \o <<n>> : l \in shorter, n \in {W_a, W_b} }

DefWords ==
    { <<kw>> \o name \o lp \o params \o rp \o body :
        kw \in { STR_def, STR_extern },
        name \in { <<W_foo>>, <<>>, <<W_1>> },
        lp \in { <<W(CH_LPAREN)>>, <<>> },
        params \in ParamLists(MaxParams) \cup { <<W_a, W(CH_COMMA), W_b>> },
        rp \in { <<W(CH_RPAREN)>>, <<>> },
        body \in { <<>>, <<W_a>>, <<W_a, W(CH_PLUS), W_b>>, <<W(CH_RPAREN)>>,
                   <<W(CH_SEMI)>> } }

Alphabet ==
    { W_a, W_f, W_1, W(CH_LPAREN), W(CH_RPAREN), W(CH_COMMA), W(CH_PLUS),
      W(CH_STAR), W(CH_LT), W(CH_SEMI), STR_def, STR_extern }

RECURSIVE WordSeqs(_)
WordSeqs(n) ==
    IF n = 0 THEN { <<>> }
    ELSE LET shorter == WordSeqs(n - 1)
         IN  shorter \cup { s \o <<w>> : s \in shorter, w \in Alphabet }

ParseInputs ==
    { Join(ws) : ws \in ChainsUpTo(MaxOps) \cup CallWords \cup ParenWords
                         \cup DefWords \cup WordSeqs(MaxWords) }

Init ==
    /\ input \in ParseInputs
    /\ InitLexer
    /\ out = <<>>
    /\ InitParser
    /\ ndebug \in BOOLEAN

----------------------------------------------------------------------------
(* The driver: main and its handlers *)

SetGlobals(g) ==
    /\ SetLexer(g)
    /\ curr_token' = g.curr_token
    /\ stderr' = g.stderr
    /\ pc' = IF g.aborted THEN "aborted" ELSE "loop"

\* what a handler found: the node, the token and the read position the parse
\* function returned at, and the lines it wrote to stderr
Unit(kind, g0, r) ==
    [kind |-> kind, node |-> r.node, first_token |-> g0.curr_token,
     token_after |-> r.g.curr_token, rpos_after |-> r.g.rpos,
     last_char_after |-> r.g.last_char,
     lines |-> SubSeq(r.g.stderr, Len(g0.stderr) + 1, Len(r.g.stderr)),
     recursions |-> r.g.recursions,
     aborted |-> r.g.aborted, unmet |-> r.g.unmet,
     built |-> r.g.built, min_precs |-> r.g.min_precs]

\* the body shared by handle_definition, handle_extern and
\* handle_top_level_expr: on failure skip one token, else report the find
Handle(kind, r, found) ==
    /\ SetGlobals(IF r.g.aborted THEN r.g
                  ELSE IF IsNull(r.node) THEN get_next_token(r.g)
                  ELSE report_found(r.g, found))
    /\ units' = Append(units, Unit(kind, Globals, r))
    /\ UNCHANGED <<input, out, ndebug, protovars, lowervars>>

MainStart ==
    /\ pc = "start"
    /\ SetGlobals(get_next_token(Globals))
    /\ UNCHANGED <<input, out, ndebug, units, protovars, lowervars>>

MainEof ==
    /\ pc = "loop" /\ curr_token = TOK_EOF
    /\ pc' = "done"
    /\ UNCHANGED <<input, lexvars, out, curr_token, stderr, ndebug, units, protovars, lowervars>>

MainSemicolon ==
    /\ pc = "loop" /\ curr_token = CH_SEMI
    /\ SetGlobals(get_next_token(Globals))
    /\ UNCHANGED <<input, out, ndebug, units, protovars, lowervars>>

handle_definition ==
    /\ pc = "loop" /\ curr_token = TOK_DEF
    /\ Handle("definition", parse_definition(Globals), "Found a definition!")

handle_extern ==
    /\ pc = "loop" /\ curr_token = TOK_EXTERN
    /\ Handle("extern", parse_extern(Globals), "Found a extern!")

handle_top_level_expr ==
    /\ pc = "loop" /\ curr_token \notin {TOK_EOF, CH_SEMI, TOK_DEF, TOK_EXTERN}
    /\ Handle("expr", parse_top_level_expr(Globals), "Found a top level expression!")

Next ==
    \/ MainStart
    \/ MainEof
    \/ MainSemicolon
    \/ handle_definition
    \/ handle_extern
    \/ handle_top_level_expr

Spec == Init /\ [][Next]_vars

----------------------------------------------------------------------------
(* The input as tokens, and the tree of a chain  p0 op1 p1 ... opn pn      *)
(* defined by where it splits: at the rightmost of its operators of lowest *)
(* precedence.                                                             *)

Tokens == RefLex(1, TRUE)
NumT(T) == Len(T) - 1          \* the tokens T without the final end-of-input

Precedence(op) ==
    CASE op = CH_LT -> 10
      [] op \in {CH_PLUS, CH_MINUS} -> 20
      [] op = CH_STAR -> 40

IsPrimaryToken(t) == t.tok \in {TOK_IDENTIFIER, TOK_NUMBER}

\* tokens i..j are  p op p ... op p
IsChain(T, i, j) ==
    /\ 1 <= i /\ i <= j /\ j <= NumT(T)
    /\ (j - i) % 2 = 0
    /\ \A k \in i..j :
          IF (k - i) % 2 = 0 THEN IsPrimaryToken(T[k])
          ELSE T[k].tok \in Operators

OpPositions(i, j) == { k \in i..j : (k - i) % 2 = 1 }

RefPrimary(t) ==
    IF t.tok = TOK_IDENTIFIER THEN VarExpr(t.text) ELSE NumLiteralExpr(strtod(t.text))

SplitAt(T, i, j) ==
    CHOOSE k \in OpPositions(i, j) :
        \A m \in OpPositions(i, j) :
            \/ Precedence(T[k].tok) < Precedence(T[m].tok)
            \/ Precedence(T[k].tok) = Precedence(T[m].tok) /\ m <= k

RECURSIVE RefTree(_, _, _)
RefTree(T, i, j) ==
    IF i = j THEN RefPrimary(T[i])
    ELSE BinaryExpr(T[SplitAt(T, i, j)].tok,
                    RefTree(T, i, SplitAt(T, i, j) - 1), RefTree(T, SplitAt(T, i, j) + 1, j))

\* the left-nested tree of tokens i..j
RECURSIVE LeftNest(_, _, _)
LeftNest(T, i, j) ==
    IF i = j THEN RefPrimary(T[i])
    ELSE BinaryExpr(T[j - 1].tok, LeftNest(T, i, j - 2), RefPrimary(T[j]))

TopLevel(expr) == AstFuncDef(AstPrototype(<<>>, <<>>), expr)

\* the first handler has run, on an input that starts with an expression
FirstParsed == Len(units) >= 1 /\ units[1].kind = "expr"

WholeChain(T) == NumT(T) >= 1 /\ IsChain(T, 1, NumT(T))

\* C1: a chain of primaries and operators parses to the tree in which a
\* higher-precedence operator binds tighter than a neighbour of lower
\* precedence: p0 lo p1 hi p2 is (p0 lo (p1 hi p2)), p0 hi p1 lo p2 is
\* ((p0 hi p1) lo p2), and every chain parses to its reference tree.
C1_PrecedenceBindsTighter ==
    LET T == Tokens IN
    (Len(units) >= 1 /\ WholeChain(T)) =>
        /\ units[1].kind = "expr"
        /\ units[1].node = TopLevel(RefTree(T, 1, NumT(T)))
        /\ units[1].token_after = TOK_EOF
        /\ (NumT(T) = 5 /\ Precedence(T[2].tok) < Precedence(T[4].tok)) =>
              units[1].node =
                  TopLevel(BinaryExpr(T[2].tok, RefPrimary(T[1]),
                      BinaryExpr(T[4].tok, RefPrimary(T[3]),
                                 RefPrimary(T[5]))))
        /\ (NumT(T) = 5 /\ Precedence(T[2].tok) > Precedence(T[4].tok)) =>
              units[1].node =
                  TopLevel(BinaryExpr(T[4].tok,
                      BinaryExpr(T[2].tok, RefPrimary(T[1]),
                                 RefPrimary(T[3])),
                      RefPrimary(T[5])))

\* a parsed chain in which the precedence rises and falls again
C1_Witness ==
    LET T == Tokens IN
    /\ FirstParsed /\ WholeChain(T) /\ NumT(T) >= 7
    /\ \E k \in OpPositions(1, NumT(T) - 2) :
          Precedence(T[k].tok) < Precedence(T[k + 2].tok)
    /\ \E k \in OpPositions(1, NumT(T) - 2) :
          Precedence(T[k].tok) > Precedence(T[k + 2].tok)
    /\ ~IsNull(units[1].node)

SamePrecedence(T, i, j) ==
    \A k, m \in OpPositions(i, j) : Precedence(T[k].tok) = Precedence(T[m].tok)

\* the number of operators of the chain that are followed by an operator of
\* strictly greater precedence
Rises(T, i, j) ==
    Cardinality({ k \in OpPositions(i, j - 2) :
                    Precedence(T[k].tok) < Precedence(T[k + 2].tok) })

\* C2: a chain whose operators all have the same precedence parses to the
\* left-nested tree; parse_bin_op_rhs calls itself once for each operator
\* that is followed by one of strictly greater precedence and never
\* otherwise, so never in a chain of equal precedence; and p0 lo p1 hi p2
\* lo' p3 with lo, lo' of equal precedence below hi is
\* ((p0 lo (p1 hi p2)) lo' p3).
C2_LeftAssociative ==
    LET T == Tokens IN
    (Len(units) >= 1 /\ WholeChain(T)) =>
        /\ units[1].recursions = Rises(T, 1, NumT(T))
        /\ SamePrecedence(T, 1, NumT(T)) =>
              /\ units[1].node = TopLevel(LeftNest(T, 1, NumT(T)))
              /\ units[1].recursions = 0
        /\ ( /\ NumT(T) = 7
             /\ Precedence(T[2].tok) = Precedence(T[6].tok)
             /\ Precedence(T[2].tok) < Precedence(T[4].tok) ) =>
              units[1].node =
                  TopLevel(BinaryExpr(T[6].tok,
                      BinaryExpr(T[2].tok, RefPrimary(T[1]),
                          BinaryExpr(T[4].tok, RefPrimary(T[3]),
                                     RefPrimary(T[5]))),
                      RefPrimary(T[7])))

\* a parsed chain of three operators that mixes + and -
C2_Witness ==
    LET T == Tokens IN
    /\ FirstParsed /\ WholeChain(T) /\ NumT(T) = 7
    /\ SamePrecedence(T, 1, NumT(T))
    /\ { T[k].tok : k \in OpPositions(1, NumT(T)) } = {CH_PLUS, CH_MINUS}
    /\ units[1].node = TopLevel(LeftNest(T, 1, NumT(T)))

----------------------------------------------------------------------------
(* parse_prototype step by step, one action for each stretch of the        *)
(* function between two tests of curr_token.  The two parse_prototype of   *)
(* the source differ in the body of the loop over the parameter names.     *)

MaxPushes == 4     \* pushes onto args after which the loop is no longer followed

ProtoNames == { <<W_foo>>, <<>> }
ProtoWords ==
    { name \o lp \o params \o rp \o tail :
        name \in ProtoNames,
        lp \in { <<W(CH_LPAREN)>>, <<>> },
        params \in ParamLists(MaxParams) \cup { <<W_a, W(CH_COMMA), W_b>> },
        rp \in { <<W(CH_RPAREN)>>, <<>> },
        tail \in { <<>>, <<W_a>>, <<W(CH_SEMI)>> } }

InitProto ==
    /\ input \in { Join(ws) : ws \in ProtoWords }
    /\ InitLexer
    /\ out = <<>>
    /\ curr_token = -69
    /\ stderr = <<>>
    /\ pc = "start"
    /\ units = <<>>
    /\ ndebug \in BOOLEAN
    /\ variant \in {1, 2}
    /\ frame = NoFrame
    /\ InitLowering

SetProtoGlobals(g) ==
    /\ SetLexer(g)
    /\ curr_token' = g.curr_token
    /\ stderr' = g.stderr

ProtoReturn(g, node) ==
    /\ SetProtoGlobals(g)
    /\ frame' = [frame EXCEPT !.at = IF g.aborted THEN "aborted" ELSE "returned",
                              !.result = node]

\* the caller puts the cursor on the first token and calls parse_prototype
ProtoCall ==
    /\ pc = "start" /\ frame.at = "none"
    /\ SetProtoGlobals(get_next_token(Globals))
    /\ frame' = [frame EXCEPT !.at = "entry"]
    /\ UNCHANGED <<input, out, ndebug, pc, units, variant, lowervars>>

\* from the assert to the loop: the name, '(' expected and skipped
ProtoName ==
    /\ frame.at = "entry"
    /\ IF assert_aborts(Globals, curr_token = TOK_IDENTIFIER)
       THEN ProtoReturn(Abort(Globals).g, nullptr)
       ELSE LET g1 == get_next_token(Globals) IN
            IF g1.curr_token # CH_LPAREN
            THEN ProtoReturn(log_error(g1, "Expected '('"), nullptr)
            ELSE /\ SetProtoGlobals(get_next_token(g1))
                 /\ frame' = [frame EXCEPT !.at = "loop",
                                           !.func_name = identifier_string]
    /\ UNCHANGED <<input, out, ndebug, pc, units, variant, lowervars>>

\* lines 301-303: while (curr_token == TOK_IDENTIFIER) { args.push_back(identifier_string); }
ProtoParamFirstVariant ==
    /\ frame.at = "loop" /\ variant = 1
    /\ curr_token = TOK_IDENTIFIER
    /\ Len(frame.args) < MaxPushes
    /\ frame' = [frame EXCEPT !.args = Append(@, identifier_string)]
    /\ UNCHANGED <<input, lexvars, out, parsevars, variant, lowervars>>

\* lines 856-859: ... { args.push_back(identifier_string); get_next_token(); }
ProtoParam ==
    /\ frame.at = "loop" /\ variant = 2
    /\ curr_token = TOK_IDENTIFIER
    /\ SetProtoGlobals(get_next_token(Globals))
    /\ frame' = [frame EXCEPT !.args = Append(@, identifier_string)]
    /\ UNCHANGED <<input, out, ndebug, pc, units, variant, lowervars>>

\* after the loop: ')' expected and skipped, the prototype returned
ProtoClose ==
    /\ frame.at = "loop"
    /\ curr_token # TOK_IDENTIFIER
    /\ IF curr_token # CH_RPAREN
       THEN ProtoReturn(log_error(Globals, "Expected '('"), nullptr)
       ELSE ProtoReturn(get_next_token(Globals),
                        AstPrototype(frame.func_name, frame.args))
    /\ UNCHANGED <<input, out, ndebug, pc, units, variant, lowervars>>

NextProto ==
    \/ ProtoCall
    \/ ProtoName
    \/ ProtoParamFirstVariant
    \/ ProtoParam
    \/ ProtoClose

SpecProto == InitProto /\ [][NextProto]_vars

\* the input is  name ( p1 ... pk )  followed by anything: name, '(' , k
\* identifiers without separators, ')' at token k + 3
IsPrototype(T, k) ==
    /\ NumT(T) >= k + 3
    /\ T[1].tok = TOK_IDENTIFIER
    /\ T[2].tok = CH_LPAREN
    /\ \A i \in 3..(k + 2) : T[i].tok = TOK_IDENTIFIER
    /\ T[k + 3].tok = CH_RPAREN

\* C4: parsing  name ( p1 ... pk )  terminates and returns
\* Prototype(name, [p1, ..., pk]): while in the loop the cursor is on the
\* token after the names captured so far, so at most k names are captured,
\* and the function returns the prototype with the cursor after the ')'.
C4_PrototypeParses ==
    LET T == Tokens IN
    \A k \in 0..NumT(T) :
        IsPrototype(T, k) =>
            /\ frame.at = "loop" =>
                  /\ Len(frame.args) <= k
                  /\ curr_token = T[3 + Len(frame.args)].tok
                  /\ frame.args = [i \in 1..Len(frame.args) |-> T[2 + i].text]
            /\ frame.at \notin {"none", "entry", "loop"} =>
                  /\ frame.at = "returned"
                  /\ frame.result = AstPrototype(T[1].text, [i \in 1..k |-> T[2 + i].text])
                  /\ curr_token = T[k + 4].tok

\* the same of the parse_prototype of lines 845-867 alone
PrototypeParsesSecondVariant == variant = 2 => C4_PrototypeParses

\* a prototype of two parameters returned by it
PrototypeParsesWitness ==
    /\ variant = 2 /\ frame.at = "returned" /\ ~IsNull(frame.result)
    /\ Len(frame.result.arg_names) = 2

----------------------------------------------------------------------------
(* Calls and parenthesized expressions *)

Min(S) == CHOOSE x \in S : \A y \in S : x <= y

\* the end of the argument that starts at token i of a list closed at c: the
\* next comma, or c
ArgEnd(T, i, c) == Min({ k \in i..(c - 1) : T[k].tok = CH_COMMA } \cup {c})

\* tokens i..c-1 are chains separated by commas
RECURSIVE IsArgList(_, _, _)
IsArgList(T, i, c) ==
    /\ IsChain(T, i, ArgEnd(T, i, c) - 1)
    /\ ArgEnd(T, i, c) = c \/ IsArgList(T, ArgEnd(T, i, c) + 1, c)

RECURSIVE ArgTrees(_, _, _)
ArgTrees(T, i, c) ==
    << RefTree(T, i, ArgEnd(T, i, c) - 1) >>
        \o (IF ArgEnd(T, i, c) = c THEN <<>> ELSE ArgTrees(T, ArgEnd(T, i, c) + 1, c))

\* the input is  name ( arg , ... , arg )  with the ')' at token c, followed by
\* nothing or by a ';'
IsCall(T, c) ==
    /\ NumT(T) >= 3
    /\ c \in {NumT(T) - 1, NumT(T)}
    /\ c < NumT(T) => T[NumT(T)].tok = CH_SEMI
    /\ T[1].tok = TOK_IDENTIFIER
    /\ T[2].tok = CH_LPAREN
    /\ T[c].tok = CH_RPAREN
    /\ c = 3 \/ IsArgList(T, 3, c)

NumArgs(T, c) ==
    IF c = 3 THEN 0
    ELSE 1 + Cardinality({ k \in 3..(c - 1) : T[k].tok = CH_COMMA })

\* C3: a call  name ( arg , ... , arg )  with any number of arguments parses
\* to Call(name, [arg1, ..., argk]), the arguments in source order, and
\* leaves the cursor on the token after the ')'.
C3_CallParses ==
    LET T == Tokens IN
    \A c \in 3..NumT(T) :
        (Len(units) >= 1 /\ IsCall(T, c)) =>
            /\ units[1].kind = "expr"
            /\ units[1].node =
                   TopLevel(CallExpr(T[1].text,
                                     IF c = 3 THEN <<>> ELSE ArgTrees(T, 3, c)))
            /\ units[1].token_after = T[c + 1].tok

\* tokens 1..c are  ( e )  with e a chain
IsParenChain(T, c) ==
    /\ c >= 3 /\ c <= NumT(T)
    /\ T[1].tok = CH_LPAREN
    /\ T[c].tok = CH_RPAREN
    /\ IsChain(T, 2, c - 1)

\* the input is  ( e X ...  where e is a chain that the token X at c (which
\* may be the end of input) neither continues nor closes
IsUnclosedParen(T, c) ==
    /\ c >= 3 /\ c <= NumT(T) + 1
    /\ T[1].tok = CH_LPAREN
    /\ IsChain(T, 2, c - 1)
    /\ T[c].tok \notin Operators \cup {CH_RPAREN}
    /\ T[c - 1].tok = TOK_IDENTIFIER => T[c].tok # CH_LPAREN

ExpectedRParen == << [error |-> TRUE, msg |-> "Expected ')'"] >>

----------------------------------------------------------------------------
(* The lowering pass: the codegen methods of the AST classes, lines        *)
(* 533-684.  The driver of this file never calls them: they are entered    *)
(* by whoever holds an AST, with context, builder and module set up, one   *)
(* unit after the other.  The methods are read statement by statement as   *)
(* written (module.getFunction is module->getFunction, proto is the        *)
(* member prototype, arg.getName is arg.getName()).                        *)
(*                                                                         *)
(* A lowering threads the record m through the methods: the module, the    *)
(* builder's insertion point, named_values, stderr, and for the claims     *)
(* what this lowering has done so far: trace, the LLVM operations called;  *)
(* codegens, the number of expression nodes whose codegen was entered;     *)
(* calls, one entry for each CallExpr::codegen that returned.              *)

Lowering ==
    [module |-> module, builder |-> builder, named_values |-> named_values,
     stderr |-> stderr, trace |-> <<>>, codegens |-> 0, calls |-> <<>>,
     body_retval |-> "unset", body_scope |-> named_values, verified |-> "unset",
     lookups |-> <<>>, erased |-> last.erased, crashed |-> FALSE]

Snapshot(m) ==
    [module |-> m.module, builder |-> m.builder, named_values |-> m.named_values,
     stderr |-> m.stderr, trace |-> m.trace, codegens |-> m.codegens]

Called(m, api) == [m EXCEPT !.trace = Append(@, api)]
Entered(m) == [m EXCEPT !.codegens = @ + 1]
Returns(m, val) == [m |-> m, val |-> val]

\* llvm::Value handles.  A Function is known by the number it was created
\* with, an Argument and an Instruction by their function and position.
ConstantFP(val) == [k |-> "ConstantFP", val |-> val]
ConstantInt(val) == [k |-> "ConstantInt", val |-> val]
Function(id) == [k |-> "Function", id |-> id]
Argument(id, i) == [k |-> "Argument", id |-> id, i |-> i]
Instruction(id, i) == [k |-> "Instruction", id |-> id, i |-> i]
BasicBlock(id) == [k |-> "BasicBlock", id |-> id]

log_error_val(m, msg) == Returns(log_error(m, msg), nullptr)

Range(s) == { s[i] : i \in 1..Len(s) }

FunctionsNamed(mod, name) ==
    { i \in 1..Len(mod.functions) : mod.functions[i].name = name }

\* a faulty lookup: no function is ever found
getFunction_absent(mod, name) == nullptr

\* module->getFunction(name): an unnamed function is in no symbol table
getFunction(mod, name) ==
    IF name = <<>> \/ FunctionsNamed(mod, name) = {} THEN nullptr
    ELSE Function(mod.functions[CHOOSE i \in FunctionsNamed(mod, name) : TRUE].id)

IsLive(mod, id) == \E i \in 1..Len(mod.functions) : mod.functions[i].id = id
IndexOf(mod, id) == CHOOSE i \in 1..Len(mod.functions) : mod.functions[i].id = id
FunctionAt(mod, func) == mod.functions[IndexOf(mod, func.id)]

\* a faulty test: every function counts as having no body
empty_always(f) == TRUE

\* func.empty(): the function has no basic block
empty(f) == Len(f.blocks) = 0

\* a faulty test: the argument count is never found to differ
arg_size_never_differs(f, args) == FALSE

\* callee_func->arg_size() != args.size()
arg_size_differs(f, args) == Len(f.args) # Len(args)

\* The name a value gets when the name asked for is taken in its symbol
\* table: the name followed by the table's next number, after a '.' for a
\* function of the module.
RECURSIVE Decimal(_)
Decimal(n) == IF n < 10 THEN <<48 + n>> ELSE Append(Decimal(n \div 10), 48 + (n % 10))

RECURSIVE makeUniqueName(_, _, _, _)
makeUniqueName(name, dot, taken, last_unique) ==
    IF (name \o dot \o Decimal(last_unique + 1)) \in taken
    THEN makeUniqueName(name, dot, taken, last_unique + 1)
    ELSE [name |-> name \o dot \o Decimal(last_unique + 1),
          last_unique |-> last_unique + 1]

createValueName(name, dot, taken, last_unique) ==
    IF name = <<>> \/ name \notin taken
    THEN [name |-> name, last_unique |-> last_unique]
    ELSE makeUniqueName(name, dot, taken, last_unique)

\* func->args()[i].setName(arg_names[i]) for i = 0 .. size - 1
RECURSIVE set_arg_names(_, _, _, _)
set_arg_name(arg_names, i, named, u) ==
    set_arg_names(arg_names, i + 1, Append(named, u.name), u.last_unique)

set_arg_names(arg_names, i, named, last_unique) ==
    IF i > Len(arg_names) THEN named
    ELSE set_arg_name(arg_names, i, named,
                      createValueName(arg_names[i], <<>>, Range(named), last_unique))

\* Function::Create(type, ExternalLinkage, name, module.get()) and the loop
\* that names the arguments
Function_Create(p, m, u) ==
    Returns([m EXCEPT !.module =
                [functions |-> Append(@.functions,
                                  [id |-> @.created + 1,
                                   name |-> u.name,
                                   args |-> set_arg_names(p.arg_names, 1, <<>>, 0),
                                   blocks |-> <<>>]),
                 last_unique |-> u.last_unique,
                 created |-> @.created + 1],
             !.trace = Append(@, "Function::Create")],
            Function(m.module.created + 1))

AstPrototype_codegen(p, m) ==
    Function_Create(p, m,
        createValueName(p.name, <<CH_DOT>>,
                        { m.module.functions[i].name : i \in 1..Len(m.module.functions) },
                        m.module.last_unique))

\* the builder appends an instruction to the block it is positioned at
Insert(m, api, inst) ==
    Returns([m EXCEPT !.module.functions[IndexOf(m.module, m.builder.id)].blocks[1].insts =
                          Append(@, inst),
                      !.trace = Append(@, api)],
            Instruction(m.builder.id,
                        Len(FunctionAt(m.module, m.builder).blocks[1].insts) + 1))

\* the builder folds an operation on constants: no instruction is appended
IsConstant(v) == v.k \in {"ConstantFP", "ConstantInt"}

CreateBinOp(m, api, op, left, right, name) ==
    IF IsConstant(left) /\ IsConstant(right)
    THEN Returns(Called(m, api),
                 ConstantFP([fold |-> op, lhs |-> left.val, rhs |-> right.val]))
    ELSE Insert(m, api, [op |-> op, operands |-> <<left, right>>, name |-> name])

CreateFCmpULT(m, left, right) ==
    IF IsConstant(left) /\ IsConstant(right)
    THEN Returns(Called(m, "CreateFCmpULT"),
                 ConstantInt([fold |-> "fcmp ult", lhs |-> left.val, rhs |-> right.val]))
    ELSE Insert(m, "CreateFCmpULT",
                [op |-> "fcmp ult", operands |-> <<left, right>>, name |-> "cmptmp"])

CreateUIToFP(c) ==
    IF IsConstant(c.val)
    THEN Returns(Called(c.m, "CreateUIToFP"), ConstantFP([fold |-> "uitofp", of |-> c.val.val]))
    ELSE Insert(c.m, "CreateUIToFP",
                [op |-> "uitofp", operands |-> <<c.val>>, name |-> "booltmp"])

\* NumLiteralExpr::codegen
NumLiteralExpr_codegen(e, m) == Returns(m, ConstantFP(e.value))

\* named_values[name]: operator[] of std::map, which adds the key with a
\* null handle when it is not there
subscript(values, name) ==
    [n \in DOMAIN values \cup {name} |->
        IF n \in DOMAIN values THEN values[n] ELSE nullptr]

VarExpr_val(e, m) ==
    IF IsNull(m.named_values[e.name])
    THEN Returns([m EXCEPT !.stderr =
                     Append(@, [error |-> TRUE,
                                msg |-> "Attempted access of undefined variable ",
                                name |-> e.name])],
                 nullptr)
    ELSE Returns(m, m.named_values[e.name])

VarExpr_returned(e, m, r) ==
    Returns([r.m EXCEPT !.lookups =
                Append(@, [name |-> e.name, before |-> Snapshot(m),
                           after |-> Snapshot(r.m), val |-> r.val])],
            r.val)

\* VarExpr::codegen
VarExpr_codegen(e, m) ==
    VarExpr_returned(e, m,
        VarExpr_val(e, [m EXCEPT !.named_values = subscript(@, e.name)]))

RECURSIVE codegen(_, _)

\* BinaryExpr::codegen from the test of the two handles on.  The default
\* case adds a char to the address of a string literal: what it prints is
\* not determined, its line is kept as the text before the operator.
BinaryExpr_emit(kld_op, left, r) ==
    IF IsNull(left) \/ IsNull(r.val) THEN Returns(r.m, nullptr)
    ELSE CASE kld_op = CH_PLUS -> CreateBinOp(r.m, "CreateFAdd", "fadd", left, r.val, "addtmp")
           [] kld_op = CH_STAR -> CreateBinOp(r.m, "CreateFMul", "fmul", left, r.val, "multmp")
           [] kld_op = CH_MINUS -> CreateBinOp(r.m, "CreateFSub", "fsub", left, r.val, "subtmp")
           [] kld_op = CH_LT -> CreateUIToFP(CreateFCmpULT(r.m, left, r.val))
           [] OTHER -> log_error_val(r.m, "Invalid binary operator '")

BinaryExpr_right(e, l) == BinaryExpr_emit(e.kld_op, l.val, codegen(e.rhs, l.m))

BinaryExpr_codegen(e, m) == BinaryExpr_right(e, codegen(e.lhs, m))

\* CallExpr::codegen, the loop over args and the call: the loop pushes each
\* arg itself, not its lowering, and no arg is a null pointer
CallExpr_args(e, callee_func, m) ==
    Insert(m, "CreateCall",
           [op |-> "call", callee |-> callee_func,
            operands |-> [i \in 1..Len(e.args) |-> [k |-> "AstExpr", node |-> e.args[i]]],
            name |-> "calltmp"])

CallExpr_callee(e, callee_func, m) ==
    IF IsNull(callee_func)
    THEN log_error_val(m, "Unknown function being called")
    ELSE IF arg_size_differs(FunctionAt(m.module, callee_func), e.args)
    THEN log_error_val(m, "Wrong number of arguments provided in function call")
    ELSE CallExpr_args(e, callee_func, m)

CallExpr_returned(e, m, r) ==
    Returns([r.m EXCEPT !.calls =
                Append(@, [callee_name |-> e.callee_name, args |-> e.args,
                           before |-> Snapshot(m), after |-> Snapshot(r.m),
                           val |-> r.val])],
            r.val)

\* CallExpr::codegen
CallExpr_codegen(e, m) ==
    CallExpr_returned(e, m, CallExpr_callee(e, getFunction(m.module, e.callee_name), m))

\* the virtual AstExpr::codegen
codegen(e, m) ==
    CASE e.k = "NumLiteralExpr" -> NumLiteralExpr_codegen(e, Entered(m))
      [] e.k = "VarExpr" -> VarExpr_codegen(e, Entered(m))
      [] e.k = "BinaryExpr" -> BinaryExpr_codegen(e, Entered(m))
      [] e.k = "CallExpr" -> CallExpr_codegen(e, Entered(m))

\* a faulty erase: the function stays in the module
eraseFromParent_kept(m, func) ==
    [m EXCEPT !.trace = Append(@, "eraseFromParent"),
              !.erased = Append(@, [name |-> FunctionAt(m.module, func).name,
                                    id |-> func.id])]

\* func.eraseFromParent(): the function leaves the module and is destroyed;
\* erased keeps the functions erased so far
eraseFromParent(m, func) ==
    [m EXCEPT !.module.functions = SelectSeq(@, LAMBDA f : f.id # func.id),
              !.trace = Append(@, "eraseFromParent"),
              !.erased = Append(@, [name |-> FunctionAt(m.module, func).name,
                                    id |-> func.id])]

\* llvm::verifyFunction answers true when the function is broken.  Of the
\* verifier's rules the ones a function built here can break: an operand of a
\* call has to be a value of the parameter's type, and the ret of a function
\* returning double has to return a value.
IsBrokenInst(inst) ==
    \/ inst.op = "call" /\ \E i \in 1..Len(inst.operands) : inst.operands[i].k = "AstExpr"
    \/ inst.op = "ret" /\ IsNull(inst.operands[1])

verifyFunction(f) ==
    \E b \in 1..Len(f.blocks) :
        \E i \in 1..Len(f.blocks[b].insts) : IsBrokenInst(f.blocks[b].insts[i])

\* verifyFunction(*func); return func;  The verifier's answer is dropped.
FuncDef_verify(m, func) ==
    Returns([Called(m, "verifyFunction") EXCEPT
                !.verified = IF verifyFunction(FunctionAt(m.module, func))
                             THEN "broken" ELSE "ok"],
            func)

\* builder->CreateRet(body_retval) on a body that was lowered
FuncDef_ret(m, func, body_retval) ==
    FuncDef_verify(Insert(m, "CreateRet",
                          [op |-> "ret", operands |-> <<body_retval>>, name |-> ""]).m,
                   func)

\* After the erase nothing returns: builder->CreateRet(nullptr) appends to
\* the block of the destroyed function and verifyFunction reads the
\* destroyed function.  Both are uses of freed memory; the outcomes kept are
\* a crash in either and a run that goes on and returns the dangling handle.
UB == {"crash in CreateRet", "crash in verifyFunction", "goes on"}

FuncDef_erased(m, func, ub) ==
    CASE ub = "crash in CreateRet" ->
            Returns([Called(m, "CreateRet") EXCEPT !.crashed = TRUE], nullptr)
      [] ub = "crash in verifyFunction" ->
            Returns([Called(Called(m, "CreateRet"), "verifyFunction") EXCEPT !.crashed = TRUE],
                    nullptr)
      [] OTHER -> Returns(Called(Called(m, "CreateRet"), "verifyFunction"), func)

\* from  Value* body_retval = body->codegen();  on
FuncDef_body(func, b, ub) ==
    IF IsNull(b.val)
    THEN FuncDef_erased(eraseFromParent([b.m EXCEPT !.body_retval = "null"], func), func, ub)
    ELSE FuncDef_ret([b.m EXCEPT !.body_retval = "value"], func, b.val)

\* BasicBlock::Create(*context, "entry", func); builder->SetInsertPoint(block);
\* named_values.clear(); and the loop over func.args()
FuncDef_enter(m, func) ==
    [m EXCEPT !.module.functions[IndexOf(m.module, func.id)].blocks =
                  Append(@, [name |-> "entry", insts |-> <<>>]),
              !.builder = BasicBlock(func.id),
              !.named_values =
                  [n \in Range(FunctionAt(m.module, func).args) |->
                      Argument(func.id,
                               CHOOSE i \in 1..Len(FunctionAt(m.module, func).args) :
                                   FunctionAt(m.module, func).args[i] = n)],
              !.trace = @ \o <<"BasicBlock::Create", "SetInsertPoint">>]

\* the scope table as it is when body->codegen() is entered
FuncDef_scope(m) == [m EXCEPT !.body_scope = m.named_values]

FuncDef_func(d, f, ub) ==
    IF IsNull(f.val) THEN Returns(f.m, nullptr)
    ELSE IF ~empty(FunctionAt(f.m.module, f.val))
    THEN log_error_val(f.m, "Function body already defined.")
    ELSE FuncDef_body(f.val, codegen(d.body, FuncDef_scope(FuncDef_enter(f.m, f.val))), ub)

FuncDef_lookup(d, func, m, ub) ==
    IF IsNull(func) THEN FuncDef_func(d, AstPrototype_codegen(d.prototype, m), ub)
    ELSE FuncDef_func(d, Returns(m, func), ub)

\* AstFuncDef::codegen
AstFuncDef_codegen(d, m, ub) ==
    FuncDef_lookup(d, getFunction(m.module, d.prototype.name), m, ub)

----------------------------------------------------------------------------
(* Lowering one unit after the other.  The units are ASTs the parser       *)
(* builds: externs, definitions and top-level expressions over three       *)
(* prototypes and a few bodies.                                            *)

MaxUnits == 3      \* units lowered in one run

W_c == <<99>>
W_bar == <<98, 97, 114>>
W_baz == <<98, 97, 122>>
One == NumLiteralExpr(Double(1, <<>>))
Two == NumLiteralExpr(Double(2, <<>>))

LowerProtos ==
    { AstPrototype(W_foo, <<W_a>>),
      AstPrototype(W_foo, <<W_a, W_b>>),
      AstPrototype(W_bar, <<W_b>>) }

LowerBodies ==
    { VarExpr(W_a),
      VarExpr(W_c),
      BinaryExpr(CH_PLUS, VarExpr(W_a), VarExpr(W_b)),
      BinaryExpr(CH_LT, VarExpr(W_a), One),
      BinaryExpr(CH_STAR, One, Two),
      CallExpr(W_foo, <<VarExpr(W_a)>>),
      CallExpr(W_foo, <<>>),
      BinaryExpr(CH_MINUS, CallExpr(W_baz, <<One>>), CallExpr(W_foo, <<>>)) }

LowerDefs == { AstFuncDef(p, e) : p \in LowerProtos, e \in LowerBodies }

InitLower ==
    /\ input = <<>>
    /\ InitLexer
    /\ out = <<>>
    /\ InitParser
    /\ ndebug = FALSE

SetLowering(kind, ast, r) ==
    /\ module' = r.m.module
    /\ builder' = r.m.builder
    /\ named_values' = r.m.named_values
    /\ stderr' = r.m.stderr
    /\ last' = [n |-> last.n + 1, kind |-> kind, ast |-> ast, ret |-> r.val,
                before |-> Snapshot(Lowering), trace |-> r.m.trace,
                calls |-> r.m.calls, body_retval |-> r.m.body_retval,
                body_scope |-> r.m.body_scope, verified |-> r.m.verified,
                lookups |-> r.m.lookups, erased |-> r.m.erased,
                crashed |-> r.m.crashed]
    /\ UNCHANGED <<input, lexvars, out, curr_token, ndebug, pc, units, protovars>>

CanLower == last.n < MaxUnits /\ ~last.crashed

\* an extern: AstPrototype::codegen
LowerExtern ==
    /\ CanLower
    /\ \E p \in LowerProtos :
          SetLowering("AstPrototype", p, AstPrototype_codegen(p, Lowering))

\* a definition: AstFuncDef::codegen
LowerDefinition ==
    /\ CanLower
    /\ \E d \in LowerDefs, ub \in UB :
          SetLowering("AstFuncDef", d, AstFuncDef_codegen(d, Lowering, ub))

\* a top-level expression: AstFuncDef::codegen of the unnamed function
\* parse_top_level_expr wraps it in
LowerTopLevelExpr ==
    /\ CanLower
    /\ \E e \in LowerBodies, ub \in UB :
          SetLowering("AstFuncDef", AstFuncDef(AstPrototype(<<>>, <<>>), e),
                      AstFuncDef_codegen(AstFuncDef(AstPrototype(<<>>, <<>>), e), Lowering, ub))

NextLower ==
    \/ LowerExtern
    \/ LowerDefinition
    \/ LowerTopLevelExpr

SpecLower == InitLower /\ [][NextLower]_vars

----------------------------------------------------------------------------
(* Redefinition, reuse of a declaration, failure of a body, bad calls *)

\* a function without a name is in the module but is registered under no name
Registered(mod, name) == name # <<>> /\ FunctionsNamed(mod, name) # {}
Named(mod, name) == mod.functions[CHOOSE i \in FunctionsNamed(mod, name) : TRUE]

RedefinitionLine == [error |-> TRUE, msg |-> "Function body already defined."]

\* the last unit lowered was a FunctionDef whose name was registered with a
\* non-empty body
IsRedefinition ==
    /\ last.kind = "AstFuncDef"
    /\ Registered(last.before.module, last.ast.prototype.name)
    /\ Named(last.before.module, last.ast.prototype.name).blocks # <<>>

\* C7: lowering a FunctionDef whose name is registered with a non-empty body
\* returns the absent result, writes the redefinition diagnostic and leaves
\* the registry as it was: one function of that name, with the body it had.
\* It is an invariant, so it holds after any number of attempts.
C7_RedefinitionRejected ==
    IsRedefinition =>
        /\ ~last.crashed
        /\ IsNull(last.ret)
        /\ stderr = Append(last.before.stderr, RedefinitionLine)
        /\ module = last.before.module
        /\ Cardinality(FunctionsNamed(module, last.ast.prototype.name)) = 1
        /\ Named(module, last.ast.prototype.name) =
               Named(last.before.module, last.ast.prototype.name)

\* a second redefinition attempt in a row, with a body other than the
\* registered function's
C7_Witness ==
    /\ IsRedefinition
    /\ last.n = 3
    /\ Len(stderr) = 2
    /\ stderr[1] = RedefinitionLine /\ stderr[2] = RedefinitionLine
    /\ last.ast.body = VarExpr(W_c)

\* names bound and calls resolved: the body lowers in the scope of params
RECURSIVE WellScoped(_, _, _)
WellScoped(e, params, mod) ==
    CASE e.k = "NumLiteralExpr" -> TRUE
      [] e.k = "VarExpr" -> e.name \in Range(params)
      [] e.k = "BinaryExpr" -> WellScoped(e.lhs, params, mod) /\ WellScoped(e.rhs, params, mod)
      [] e.k = "CallExpr" ->
            /\ Registered(mod, e.callee_name)
            /\ Len(Named(mod, e.callee_name).args) = Len(e.args)
            /\ \A i \in 1..Len(e.args) : WellScoped(e.args[i], params, mod)

\* the last unit lowered was a FunctionDef of a name registered without a
\* body and with the same parameter list
IsDefinitionOfDeclared ==
    /\ last.kind = "AstFuncDef"
    /\ Registered(last.before.module, last.ast.prototype.name)
    /\ Named(last.before.module, last.ast.prototype.name).blocks = <<>>
    /\ Named(last.before.module, last.ast.prototype.name).args = last.ast.prototype.arg_names

\* C8: lowering a FunctionDef of a name an extern has declared, with the same
\* parameter list, creates no function (AstPrototype::codegen is not entered)
\* and leaves no second function of that name; when the body is well scoped
\* it returns the handle of the declaration, which is then the one function
\* of that name and has a body.
C8_DefinitionReusesDeclaration ==
    IsDefinitionOfDeclared =>
        /\ \A i \in 1..Len(last.trace) : last.trace[i] # "Function::Create"
        /\ module.created = last.before.module.created
        /\ Cardinality(FunctionsNamed(module, last.ast.prototype.name)) <= 1
        /\ WellScoped(last.ast.body, last.ast.prototype.arg_names, last.before.module) =>
              /\ ~last.crashed
              /\ last.ret = Function(Named(last.before.module, last.ast.prototype.name).id)
              /\ Cardinality(FunctionsNamed(module, last.ast.prototype.name)) = 1
              /\ Named(module, last.ast.prototype.name).id = last.ret.id
              /\ Named(module, last.ast.prototype.name).blocks # <<>>
              /\ stderr = last.before.stderr

\* extern foo(a b) and then def foo(a b) a+b
C8_Witness ==
    /\ IsDefinitionOfDeclared
    /\ last.ast = AstFuncDef(AstPrototype(W_foo, <<W_a, W_b>>),
                             BinaryExpr(CH_PLUS, VarExpr(W_a), VarExpr(W_b)))
    /\ last.ret = Function(1)
    /\ Len(module.functions) = 1
    /\ Len(module.functions[1].blocks[1].insts) = 2

\* a block that does not end in a ret
IsPartial(f) ==
    \E i \in 1..Len(f.blocks) :
        IF Len(f.blocks[i].insts) = 0 THEN TRUE
        ELSE f.blocks[i].insts[Len(f.blocks[i].insts)].op # "ret"

\* C9: when the body of a FunctionDef fails to lower, the lowering discards
\* the function, calls neither CreateRet nor verifyFunction, and returns the
\* absent result; no function with a partial body is left under the name.
C9_FailedBodyDiscards ==
    (last.kind = "AstFuncDef" /\ last.body_retval = "null") =>
        /\ ~last.crashed
        /\ IsNull(last.ret)
        /\ \A i \in 1..Len(last.trace) :
              last.trace[i] \notin {"CreateRet", "verifyFunction"}
        /\ \A i \in FunctionsNamed(module, last.ast.prototype.name) :
              ~IsPartial(module.functions[i])

\* what of C9 the code does: the function is erased, so that no function the
\* failed lowering has created or added a block to is left in the module
FailedBodyErases ==
    (last.kind = "AstFuncDef" /\ last.body_retval = "null") =>
        /\ \E i \in 1..Len(last.trace) : last.trace[i] = "eraseFromParent"
        /\ \A i \in 1..Len(module.functions) : ~IsPartial(module.functions[i])
        /\ last.ast.prototype.name # <<>> =>
              ~Registered(module, last.ast.prototype.name)

IsBadCall(c) ==
    \/ ~Registered(c.before.module, c.callee_name)
    \/ Len(Named(c.before.module, c.callee_name).args) # Len(c.args)

BadCallLine(c) ==
    [error |-> TRUE,
     msg |-> IF Registered(c.before.module, c.callee_name)
             THEN "Wrong number of arguments provided in function call"
             ELSE "Unknown function being called"]

\* C10: a Call whose callee is not registered, or is registered with another
\* number of parameters, returns the absent result after writing one
\* diagnostic; the codegen of no argument is entered, no LLVM operation is
\* called, and module, builder and named_values are as before the call.
C10_BadCallFailsCleanly ==
    \A j \in 1..Len(last.calls) :
        IsBadCall(last.calls[j]) =>
            /\ IsNull(last.calls[j].val)
            /\ last.calls[j].after =
                   [last.calls[j].before EXCEPT
                       !.stderr = Append(@, BadCallLine(last.calls[j]))]

\* both kinds of bad call lowered in one body: baz(1) - foo() with foo
\* registered with one parameter
C10_Witness ==
    /\ Len(last.calls) = 2
    /\ ~Registered(last.calls[1].before.module, last.calls[1].callee_name)
    /\ Registered(last.calls[2].before.module, last.calls[2].callee_name)
    /\ IsBadCall(last.calls[2])
    /\ last.calls[2].args = <<>>

----------------------------------------------------------------------------
(* The scope table at the start of a body *)

BodyStarted == last.kind = "AstFuncDef" /\ last.body_retval # "unset"

Bound(scope, name) ==
    IF name \in DOMAIN scope THEN ~IsNull(scope[name]) ELSE FALSE

\* C11: when the body of a FunctionDef starts lowering, the keys of the scope
\* table are exactly the parameter names of the prototype of that FunctionDef
\* and each is bound; so a body that is a reference to a name lowers exactly
\* when the name is one of the definition's own parameters.
C11_ScopeIsOwnParameters ==
    BodyStarted =>
        /\ DOMAIN last.body_scope = Range(last.ast.prototype.arg_names)
        /\ \A n \in DOMAIN last.body_scope : Bound(last.body_scope, n)
        /\ last.ast.body.k = "VarExpr" =>
              (last.body_retval = "value") =
                  (last.ast.body.name \in Range(last.ast.prototype.arg_names))

\* what of C11 the code does: the table is cleared and refilled with the
\* argument names of the function the body is built in, which are the names
\* of the declaration when the definition reuses one
ScopeIsArgumentNames ==
    BodyStarted =>
        \E f \in Range(IF last.body_retval = "null" THEN last.before.module.functions
                       ELSE module.functions) \cup
                 {[args |-> last.ast.prototype.arg_names]} :
            /\ DOMAIN last.body_scope = Range(f.args)
            /\ \A n \in DOMAIN last.body_scope : Bound(last.body_scope, n)

----------------------------------------------------------------------------
(* The verification of a finished function *)

\* C12: when verifyFunction reports the finished function broken, the
\* lowering of the FunctionDef returns the absent result.
C12_BrokenFunctionFails ==
    (last.kind = "AstFuncDef" /\ last.verified = "broken") => IsNull(last.ret)

\* what of C12 the code does: the verifier runs on every function that got
\* its ret, and the handle is returned whatever the verifier answers
VerifierAnswerDropped ==
    (last.kind = "AstFuncDef" /\ last.body_retval = "value") =>
        /\ last.verified \in {"ok", "broken"}
        /\ last.ret = Function(last.ret.id)
        /\ IsLive(module, last.ret.id)

----------------------------------------------------------------------------
(* Asserts, diagnostics and termination of the driver *)

IsErrorLine(l) == l.error

\* C13: no parse function is entered with its assert on curr_token false, so
\* no input aborts the process, and every failed parse returns the absent
\* result after writing a diagnostic.
C13_NoPanic ==
    /\ pc # "aborted"
    /\ \A i \in 1..Len(units) :
          /\ units[i].unmet = 0
          /\ ~units[i].aborted
          /\ IsNull(units[i].node) =>
                \E j \in 1..Len(units[i].lines) : IsErrorLine(units[i].lines[j])

\* what of C13 the code does: the only assert entered with a false condition
\* is the one of parse_prototype, once, in a definition or an extern; every
\* failed parse that is not aborted writes a diagnostic
OnlyPrototypeAssertFails ==
    \A i \in 1..Len(units) :
        /\ units[i].unmet > 0 =>
              /\ units[i].kind \in {"definition", "extern"}
              /\ units[i].unmet = 1
        /\ units[i].aborted => ~ndebug /\ units[i].unmet = 1 /\ units[i].lines = <<>>
        /\ (IsNull(units[i].node) /\ ~units[i].aborted) =>
              \E j \in 1..Len(units[i].lines) : IsErrorLine(units[i].lines[j])

\* the characters in front of the lexer: the one in the push-back slot and
\* the ones not yet read
Unread(n, c) == Len(input) - n + (IF c = EOF THEN 0 ELSE 1)

\* a step moves the cursor forward: the new current token is made of
\* characters that were unread, or it is the end token after another token
Consumes ==
    \/ Unread(rpos', last_char') < Unread(rpos, last_char)
    \/ (curr_token' = TOK_EOF /\ curr_token # TOK_EOF)

DriverIteration == pc = "loop" /\ pc' = "loop"
PrototypeLoopTurn == frame.at = "loop" /\ frame'.at = "loop"

\* C14: every iteration of the driver loop that does not return, and every
\* turn of a loop inside a parse function, consumes at least one token, so
\* that on a finite input the end token is reached and the driver returns.
C14_EveryTurnConsumes ==
    [][(DriverIteration \/ PrototypeLoopTurn) => Consumes]_vars

\* what of C14 the code of lines 845-961 does: every iteration of main's
\* loop consumes, and a handler whose parse failed leaves the cursor one
\* token after the token the parse function returned at
DriverIterationConsumes == [][DriverIteration => Consumes]_vars

----------------------------------------------------------------------------
(* One diagnostic for one failure *)

LoweringFailed ==
    /\ last.kind \in {"AstPrototype", "AstFuncDef"}
    /\ IsNull(last.ret) \/ last.body_retval = "null"

\* C15: a unit whose parse or lowering fails writes exactly one diagnostic
\* line: here for the lowering, where the lines written by the failed
\* lowering of one unit are the ones added to stderr during it.
C15_OneDiagnosticPerFailure ==
    /\ \A i \in 1..Len(units) :
          (IsNull(units[i].node) /\ ~units[i].aborted) => Len(units[i].lines) = 1
    /\ LoweringFailed => Len(stderr) = Len(last.before.stderr) + 1

\* what of C15 the code does for the parser: a failed parse that is not
\* aborted writes one line, an error, and a successful one writes none
ParseFailureLogsOnce ==
    \A i \in 1..Len(units) :
        /\ (IsNull(units[i].node) /\ ~units[i].aborted) =>
              /\ Len(units[i].lines) = 1
              /\ IsErrorLine(units[i].lines[1])
        /\ ~IsNull(units[i].node) => units[i].lines = <<>>

----------------------------------------------------------------------------
(* The lookup of a variable *)

UndefinedLine(name) ==
    [error |-> TRUE, msg |-> "Attempted access of undefined variable ", name |-> name]

LookupResult(l) ==
    IF Bound(l.before.named_values, l.name)
    THEN /\ l.val = l.before.named_values[l.name]
         /\ l.after.stderr = l.before.stderr
    ELSE /\ IsNull(l.val)
         /\ l.after.stderr = Append(l.before.stderr, UndefinedLine(l.name))

\* C16: the lowering of a VariableRef returns the handle the name is bound
\* to, or fails with the undefined-variable diagnostic when it is not bound,
\* and leaves the scope table, its keys and its bindings, as it was.
C16_LookupIsPure ==
    \A j \in 1..Len(last.lookups) :
        /\ LookupResult(last.lookups[j])
        /\ last.lookups[j].after.named_values = last.lookups[j].before.named_values

\* what of C16 the code does: the result is as specified and the bindings
\* there were are kept, but a name that was not in the table is in it
\* afterwards, with a null handle
LookupAddsKey ==
    \A j \in 1..Len(last.lookups) :
        LET l == last.lookups[j] IN
        /\ LookupResult(l)
        /\ DOMAIN l.after.named_values = DOMAIN l.before.named_values \cup {l.name}
        /\ \A n \in DOMAIN l.before.named_values :
              l.after.named_values[n] = l.before.named_values[n]
        /\ l.name \notin DOMAIN l.before.named_values => IsNull(l.after.named_values[l.name])
        /\ l.after.module = l.before.module /\ l.after.builder = l.before.builder
        /\ l.after.trace = l.before.trace

----------------------------------------------------------------------------
(* A failed definition of a declared name *)

\* the last unit lowered was a FunctionDef of a name registered without a
\* body, and its body failed to lower
IsFailedDefinitionOfDeclared ==
    /\ last.kind = "AstFuncDef"
    /\ Registered(last.before.module, last.ast.prototype.name)
    /\ Named(last.before.module, last.ast.prototype.name).blocks = <<>>
    /\ last.body_retval = "null"

UnknownLine == [error |-> TRUE, msg |-> "Unknown function being called"]

\* C17: when a FunctionDef of a name that has a body-less declaration fails
\* in its body, no function is created and the function erased is the
\* declaration, so that the module has no function of that name any more
\* and its other functions as before; a call of the name lowered next fails
\* with the unknown-function diagnostic.
C17_FailedDefinitionErasesDeclaration ==
    IsFailedDefinitionOfDeclared =>
        /\ \A i \in 1..Len(last.trace) : last.trace[i] # "Function::Create"
        /\ Len(last.erased) > 0
        /\ last.erased[Len(last.erased)] =
               [name |-> last.ast.prototype.name,
                id |-> Named(last.before.module, last.ast.prototype.name).id]
        /\ ~Registered(module, last.ast.prototype.name)
        /\ module.functions =
               SelectSeq(last.before.module.functions,
                         LAMBDA f : f.name # last.ast.prototype.name)
        /\ \A args \in {<<>>, <<One>>, <<VarExpr(W_a)>>} :
              /\ IsNull(CallExpr_codegen(CallExpr(last.ast.prototype.name, args),
                                         Lowering).val)
              /\ CallExpr_codegen(CallExpr(last.ast.prototype.name, args),
                                  Lowering).m.stderr = Append(stderr, UnknownLine)

\* extern foo(a b) and then def foo(a b) c, in a run that goes on
C17_Witness ==
    /\ IsFailedDefinitionOfDeclared
    /\ ~last.crashed
    /\ last.n = 2
    /\ last.ast = AstFuncDef(AstPrototype(W_foo, <<W_a, W_b>>), VarExpr(W_c))
    /\ last.erased = <<[name |-> W_foo, id |-> 1]>>
    /\ module.functions = <<>>

\* the sequel: extern foo(..), a def foo(..) whose body fails, and then the
\* top-level expression foo(), which fails as a call of an unknown function
CallAfterErasureFails ==
    /\ last.n = 3
    /\ module.created = 2
    /\ last.ast = AstFuncDef(AstPrototype(<<>>, <<>>), CallExpr(W_foo, <<>>))
    /\ Len(last.erased) = 2
    /\ last.erased[1].name = W_foo /\ last.erased[1].id = 1
    /\ Len(last.calls) = 1
    /\ IsNull(last.calls[1].val)
    /\ stderr[Len(stderr)] = UnknownLine


----------------------------------------------------------------------------
(* The operators of the BinaryExpr nodes the parser makes *)

\* the operators of the BinaryExpr nodes of a tree
RECURSIVE BinaryOps(_)
BinaryOps(e) ==
    CASE e.k = "BinaryExpr" -> {e.kld_op} \cup BinaryOps(e.lhs) \cup BinaryOps(e.rhs)
      [] e.k = "CallExpr" -> UNION { BinaryOps(e.args[i]) : i \in DOMAIN e.args }
      [] e.k = "AstFuncDef" -> BinaryOps(e.body)
      [] OTHER -> {}

InvalidOperatorLine == [error |-> TRUE, msg |-> "Invalid binary operator '"]

\* the lines on stderr after the lowering of a parsed tree into the module
LoweredLines(node, ub) ==
    IF node.k = "AstFuncDef" THEN Range(AstFuncDef_codegen(node, Lowering, ub).m.stderr)
    ELSE IF node.k = "AstPrototype" THEN Range(AstPrototype_codegen(node, Lowering).m.stderr)
    ELSE {}

NonOperatorTokens == {TOK_IDENTIFIER, TOK_NUMBER, TOK_DEF, TOK_EXTERN, TOK_EOF}

\* C18: every BinaryExpr node the parser makes during a handler, in a parse
\* that succeeds or fails, has an operator among '<', '+', '-' and '*';
\* parse_bin_op_rhs is called with minimum precedences of 0 and more only; a
\* parse that returns with a non-operator token current has not made a node
\* of that token; and the lowering of a tree the parser returned does not
\* write the invalid-operator diagnostic.
C18_OperatorsAreTheFour ==
    \A i \in DOMAIN units :
        /\ units[i].built \subseteq Operators
        /\ \A p \in units[i].min_precs : p >= 0
        /\ BinaryOps(units[i].node) \subseteq units[i].built
        /\ \A t \in NonOperatorTokens : to_char(t) \notin units[i].built
        /\ \A ub \in UB : InvalidOperatorLine \notin LoweredLines(units[i].node, ub)

\* f(b*2)z: the identifier after the call ends the expression and is left
\* as the current token, and the ')' before it ended the argument
C18_Witness ==
    /\ Len(units) >= 1
    /\ units[1].kind = "expr"
    /\ units[1].node = AstFuncDef(AstPrototype(<<>>, <<>>),
                           CallExpr(W_f, <<BinaryExpr(CH_STAR, VarExpr(W_b),
                                                      NumLiteralExpr(Double(2, <<>>)))>>))
    /\ units[1].built = {CH_STAR}
    /\ units[1].min_precs = {0}
    /\ units[1].token_after = TOK_IDENTIFIER

====
